---- MODULE Spec2Model ----
(***************************************************************************)
(* Model of src/bsec/reader.c: the BME680/BSEC sensor reader.  One process *)
(* runs main(); the BSEC integration library (bsec_iot_init and            *)
(* bsec_iot_loop) drives the callbacks this file hands to it: bus_write,   *)
(* bus_read, sleeper, get_timestamp_us, output_ready, state_load,          *)
(* and state_save.  The state file and the time-of-day clock outlive the   *)
(* process.                                                                *)
(***************************************************************************)
EXTENDS Integers, Sequences, FiniteSets, TLC

VARIABLES
    pc,          \* position of main(): start, opened, bound, init, loop, returned, exited, crashed
    g_i2cFid,    \* the global I2C device handle (-1: not open)
    i2cAddr,     \* slave address bound to the handle by ioctl(I2C_SLAVE) (0: none)
    exitStatus,  \* <<s>> once main returned s or exit(s) was called, <<>> while running
    ret,         \* return_values_init of bsec_iot_init in this run
    run,         \* history of this run: what main has called so far
    stateFile,   \* bsec_state.dat: whether it exists, and its bytes
    savedBlob,   \* the blob of the last completed save while the file is untouched since
    tv,          \* time-of-day clock read by gettimeofday
    lastTs,      \* value returned by the previous get_timestamp_us of this run (-1: none)
    last,        \* observation of the last callback call: arguments, system calls, result
    DEBUG        \* whether the build defines DEBUG

vars == <<pc, g_i2cFid, i2cAddr, exitStatus, ret, run, stateFile, savedBlob, tv, lastTs, last, DEBUG>>

(***************************************************************************)
(* Bounds of the model                                                     *)
(***************************************************************************)
MaxByte == 1            \* byte values used in blobs: 0..MaxByte
MaxBlobLen == 2         \* size of the caller's state buffer and longest saved blob
MaxDataLen == 17        \* longest bus payload (the frame buffer holds 16 bytes)
MaxSec == 1             \* tv_sec ranges over 0..MaxSec

Bytes == 0..MaxByte

Min(a, b) == IF a < b THEN a ELSE b

SeqsUpTo(S, n) == UNION { [1..k -> S] : k \in 0..n }

\* what an earlier installation may have left in the file: also longer than a blob
OldContents == SeqsUpTo(Bytes, MaxBlobLen + 1)

NoBlob == <<-1>>

None == [op |-> "none"]

(***************************************************************************)
(* The outcomes of undefined behaviour: fclose(NULL), writes past reg[15]  *)
(***************************************************************************)
UBOutcomes == {"crash", "continue"}

(***************************************************************************)
(* State store: state_load, state_save                                    *)
(***************************************************************************)
STATE_FILE_PATH == "bsec_state.dat"

\* fopen(path, "a"): creates the file when absent, keeps its content
fopen_a(f) == [exists |-> TRUE, data |-> f.data]

\* a "w" that behaves like "r+": the old bytes stay
fopen_w_keep(f) == [exists |-> TRUE, data |-> f.data]

\* fopen(path, "w"): creates the file when absent, truncates it to zero length
fopen_w(f) == [exists |-> TRUE, data |-> <<>>]

\* fread(buf, 1, n_buffer, file): number of bytes copied from the start of the file
fread_size(f, n_buffer) == Min(n_buffer, Len(f.data))

\* the buffer after fread: its first size bytes are the file's, the rest is untouched
fread_buffer(buf, f, n_buffer) ==
    [i \in 1..Len(buf) |->
        IF i <= fread_size(f, n_buffer) THEN f.data[i] ELSE buf[i]]

\* fwrite(buf, 1, length, file) that transferred k bytes to a file opened at offset 0
fwrite_data(f, buf, k) ==
    SubSeq(buf, 1, k) \o (IF Len(f.data) > k THEN SubSeq(f.data, k + 1, Len(f.data)) ELSE <<>>)

\* state_load(state_buffer, n_buffer).  aOK, rOK: whether the two fopen calls
\* succeed; ub: what fclose(NULL) does in this build.
state_load(state_buffer, n_buffer, aOK, rOK, ub) ==
    LET f1 == IF aOK THEN fopen_a(stateFile) ELSE stateFile
        nullClose1 == ~aOK
        died1 == nullClose1 /\ ub = "crash"
        opened == rOK /\ f1.exists
        size == IF opened THEN fread_size(f1, n_buffer) ELSE 0
        buf == IF opened THEN fread_buffer(state_buffer, f1, n_buffer) ELSE state_buffer
        nullClose2 == ~died1 /\ ~opened
        died == died1 \/ (nullClose2 /\ ub = "crash")
    IN  /\ stateFile' = f1
        /\ savedBlob' = savedBlob
        /\ last' = [op |-> "state_load", n_buffer |-> n_buffer,
                    fileBefore |-> stateFile,
                    appendOpened |-> aOK, readOpened |-> (~died1 /\ opened),
                    closedNull |-> (nullClose1 \/ nullClose2),
                    returned |-> ~died,
                    size |-> IF died THEN 0 ELSE size,
                    buffer |-> IF died1 THEN state_buffer ELSE buf,
                    msg |-> IF ~died1 /\ opened THEN <<"Loaded sensor state">> ELSE <<>>]
        /\ pc' = IF died THEN "crashed" ELSE pc
        /\ exitStatus' = exitStatus

\* state_save(state_buffer, length).  wOK: whether fopen succeeds; k: bytes
\* fwrite transferred; ub: what fclose(NULL) does in this build.
state_save(state_buffer, length, wOK, k, ub) ==
    LET f1 == IF wOK THEN fopen_w(stateFile) ELSE stateFile
        f2 == IF wOK THEN [f1 EXCEPT !.data = fwrite_data(f1, state_buffer, k)] ELSE f1
        died == ~wOK /\ ub = "crash"
    IN  /\ stateFile' = f2
        /\ savedBlob' = IF wOK /\ k = length THEN SubSeq(state_buffer, 1, length)
                        ELSE IF wOK THEN NoBlob ELSE savedBlob
        /\ last' = [op |-> "state_save", blob |-> SubSeq(state_buffer, 1, length),
                    length |-> length, opened |-> wOK,
                    written |-> IF wOK THEN k ELSE 0,
                    closedNull |-> ~wOK,
                    returned |-> ~died,
                    msg |-> IF wOK THEN <<"Saved sensor state">>
                            ELSE <<"Unable to save sensor state!">>]
        /\ pc' = IF died THEN "crashed" ELSE pc
        /\ exitStatus' = exitStatus

(***************************************************************************)
(* Bus transport: bus_write, bus_read                                      *)
(***************************************************************************)
REG_SIZE == 16          \* uint8_t reg[16] of bus_write

RegAddrs == {116, 208}  \* register offsets used as samples (ctrl_meas, chip id)

PayloadBases == {0, 250}

\* the memory at reg_data_ptr: data_len distinct bytes
Payload(base, data_len) == [i \in 1..data_len |-> (base + i) % 256]

\* the indices of reg that the frame-building code of bus_write assigns
reg_written(data_len) == {0} \cup { i \in 1..data_len : i < data_len + 1 }

\* reg after the copy loop, as far as it lies inside the array
reg_after(reg_addr, reg_data, data_len) ==
    [i \in 0..(REG_SIZE - 1) |->
        IF i = 0 THEN reg_addr
        ELSE IF i < data_len + 1 THEN reg_data[i]
        ELSE -1]

\* what bus_write does once write() has returned n
bus_write_rslt(n, data_len) ==
    IF n # data_len + 1 THEN [exits |-> TRUE, rslt |-> 1] ELSE [exits |-> FALSE, rslt |-> 0]

\* the data_len+1 bytes write() is handed, starting at reg.  Past reg[15] the
\* bytes are whatever the stack holds: the copied payload (ub = "continue" or
\* "crash") or other bytes c (ub = "clobber").
bus_write_frame(reg_addr, reg_data, data_len, ub, c) ==
    [j \in 1..(data_len + 1) |->
        IF j - 1 < REG_SIZE THEN reg_after(reg_addr, reg_data, data_len)[j - 1]
        ELSE IF ub = "clobber" THEN c ELSE reg_data[j - 1]]

BusUBOutcomes == {"crash", "continue", "clobber"}

\* bus_write(dev_addr, reg_addr, reg_data_ptr, data_len).  n: what write()
\* returns; ub, c: outcome of the writes past the end of reg, if any.
bus_write(reg_addr, reg_data, data_len, n, ub, c) ==
    LET overflow == \E i \in reg_written(data_len) : i >= REG_SIZE
        r == bus_write_rslt(n, data_len)
        smashed == overflow /\ ub = "crash" /\ ~r.exits
    IN  /\ last' = [op |-> "bus_write", reg_addr |-> reg_addr, reg_data |-> reg_data,
                    data_len |-> data_len,
                    written |-> reg_written(data_len),
                    handed |-> 0..data_len,
                    writes |-> << [fd |-> g_i2cFid,
                                   frame |-> bus_write_frame(reg_addr, reg_data, data_len, ub, c),
                                   count |-> data_len + 1] >>,
                    n |-> n,
                    returned |-> ~r.exits /\ ~smashed,
                    rslt |-> r.rslt]
        /\ pc' = IF r.exits THEN "exited" ELSE IF smashed THEN "crashed" ELSE pc
        /\ exitStatus' = IF r.exits THEN <<1>> ELSE exitStatus

\* rslt after the second phase alone
bus_read_rslt_last(w, r, data_len) == IF r # data_len THEN 1 ELSE 0

\* rslt of bus_read when write() returned w and read() returned r
bus_read_rslt(w, r, data_len) ==
    LET rslt0 == 0
        rslt1 == IF w # 1 THEN 1 ELSE rslt0
        rslt2 == IF r # data_len THEN 1 ELSE rslt1
    IN  rslt2

\* bus_read(dev_addr, reg_addr, reg_data_ptr, data_len)
bus_read(reg_addr, data_len, w, r) ==
    /\ last' = [op |-> "bus_read", reg_addr |-> reg_addr, data_len |-> data_len,
                calls |-> << [call |-> "write", fd |-> g_i2cFid, frame |-> <<reg_addr>>,
                              count |-> 1, got |-> w],
                             [call |-> "read", fd |-> g_i2cFid, frame |-> <<>>,
                              count |-> data_len, got |-> r] >>,
                returned |-> TRUE,
                rslt |-> bus_read_rslt(w, r, data_len)]
    /\ pc' = pc
    /\ exitStatus' = exitStatus

(***************************************************************************)
(* Clock: sleeper, get_timestamp_us                                        *)
(***************************************************************************)
\* A uint32_t is held as two 16-bit limbs <<high, low>>.
Limb == 65536

SleepHighs == {0, 65, 65535}
SleepLows == {0, 1, 35127, 35128, 65535}

\* t_ms * 1000 as the mathematical product, in three limbs
mul1000_exact(t) ==
    LET p0 == t[2] * 1000
        p1 == t[1] * 1000 + (p0 \div Limb)
    IN  << p1 \div Limb, p1 % Limb, p0 % Limb >>

\* t_ms * 1000 as the C expression computes it: unsigned 32-bit, modulo 2^32
mul1000_u32(t) ==
    LET p0 == t[2] * 1000
        p1 == t[1] * 1000 + (p0 \div Limb)
    IN  << p1 % Limb, p0 % Limb >>

\* a 32-bit value widened to three limbs
Widen(u) == << 0, u[1], u[2] >>

\* sleeper(t_ms): usleep(t_ms * 1000)
sleeper(t_ms) ==
    /\ last' = [op |-> "sleeper", t_ms |-> t_ms, usleep |-> mul1000_u32(t_ms), returned |-> TRUE]
    /\ pc' = pc
    /\ exitStatus' = exitStatus

UsecVals == {0, 999999}

Times == [sec : 0..MaxSec, usec : UsecVals]

TimeBefore(a, b) == a.sec < b.sec \/ (a.sec = b.sec /\ a.usec < b.usec)

\* tv.tv_sec * 1000000ll + tv.tv_usec
timestamp_of(t) == t.sec * 1000000 + t.usec

\* get_timestamp_us(): gettimeofday, then the conversion to microseconds
get_timestamp_us ==
    /\ last' = [op |-> "get_timestamp_us", ts |-> timestamp_of(tv), prev |-> lastTs,
                returned |-> TRUE]
    /\ lastTs' = timestamp_of(tv)
    /\ pc' = pc
    /\ exitStatus' = exitStatus

(***************************************************************************)
(* Output: output_ready, output_header                                     *)
(***************************************************************************)
\* Floats are held in hundredths; the timestamp is an integer.
RoundDiv(x, d) == (x + d \div 2) \div d

\* printf("%.3lf", timestamp / 1000000000.0): the text, in thousandths
fmt_timestamp(timestamp) == RoundDiv(timestamp, 1000000)

\* printf("%.1f", x): the text, in tenths
fmt_1(x) == RoundDiv(x, 10)

\* printf("%.0f", x): the text, in units
fmt_0(x) == RoundDiv(x, 100)

\* pressure / 100.0f
hPa(pressure) == RoundDiv(pressure, 100)

\* the arguments bsec_iot_loop passes to output_ready
Results ==
    { [timestamp |-> 1500000000, iaq |-> 2512, iaq_accuracy |-> 0, temperature |-> 2346,
       humidity |-> 4012, pressure |-> 10032700, raw_temperature |-> 2401,
       raw_humidity |-> 3988, gas |-> 1234567, bsec_status |-> 0, static_iaq |-> 2512,
       co2_equivalent |-> 50000, breath_voc_equivalent |-> 49],
      [timestamp |-> 2000000000, iaq |-> 10468, iaq_accuracy |-> 3, temperature |-> 1931,
       humidity |-> 5577, pressure |-> 9981200, raw_temperature |-> 1984,
       raw_humidity |-> 5521, gas |-> 8765432, bsec_status |-> 0, static_iaq |-> 9833,
       co2_equivalent |-> 81234, breath_voc_equivalent |-> 112] }

\* the fields of the line output_ready prints, in order: the argument each
\* conversion takes and the text it produces
output_fields(a) ==
    << [arg |-> "timestamp", text |-> fmt_timestamp(a.timestamp)],
       [arg |-> "temperature", text |-> fmt_1(a.temperature)],
       [arg |-> "pressure", text |-> fmt_1(hPa(a.pressure))],
       [arg |-> "humidity", text |-> fmt_1(a.humidity)],
       [arg |-> "gas", text |-> fmt_0(a.gas)],
       [arg |-> "iaq", text |-> fmt_1(a.iaq)] >>

\* output_ready(timestamp, iaq, iaq_accuracy, ...): both builds print the same
\* six values; the DEBUG build labels them, the other separates them with '|'.
output_ready(a) ==
    /\ last' = [op |-> "output_ready", args |-> a,
                lines |-> << [labelled |-> DEBUG, fields |-> output_fields(a)] >>,
                returned |-> TRUE]
    /\ pc' = pc
    /\ exitStatus' = exitStatus

\* the column names output_header prints
output_header ==
    <<"Timestamp", "Temperature", "Pressure", "RelativeHumidity", "GasRawReading", "IAQ">>

(***************************************************************************)
(* main and the i2c handle                                                 *)
(***************************************************************************)
BME680_I2C_ADDR_SECONDARY == 119

NoRet == [valid |-> FALSE, bme680_status |-> 0, bsec_status |-> 0]

FreshRun == [initCalled |-> FALSE, fidAtInit |-> -1, addrAtInit |-> 0, loopCalled |-> FALSE]

\* int8_t values are held as their byte; (int) sign-extends
SignExtend8(b) == IF b >= 128 THEN b - 256 ELSE b

Bme680Statuses == {0, 2, 254}
BsecStatuses == {-33, 0, 10}

\* i2cOpen(): open("/dev/i2c-1", O_RDWR); exit(1) when it fails
i2cOpen(fd) ==
    /\ g_i2cFid' = fd
    /\ IF fd < 0
       THEN pc' = "exited" /\ exitStatus' = <<1>>
       ELSE pc' = "opened" /\ exitStatus' = exitStatus

\* i2cSetAddress(address): ioctl(g_i2cFid, I2C_SLAVE, address); exit(1) when it fails
i2cSetAddress(address, rc) ==
    IF rc < 0
    THEN pc' = "exited" /\ exitStatus' = <<1>> /\ i2cAddr' = i2cAddr
    ELSE pc' = "bound" /\ exitStatus' = exitStatus /\ i2cAddr' = address

\* main checks bme680_status alone
main_after_init_bme_only(r) ==
    IF SignExtend8(r.bme680_status) # 0
    THEN [pc |-> "returned", status |-> <<SignExtend8(r.bme680_status)>>]
    ELSE [pc |-> "loop", status |-> <<>>]

\* what main does with the value of bsec_iot_init
main_after_init(r) ==
    IF SignExtend8(r.bme680_status) # 0
    THEN [pc |-> "returned", status |-> <<SignExtend8(r.bme680_status)>>]
    ELSE IF r.bsec_status # 0
    THEN [pc |-> "returned", status |-> <<r.bsec_status>>]
    ELSE [pc |-> "loop", status |-> <<>>]

main_i2cOpen ==
    /\ pc = "start"
    /\ \E fd \in {-1, 3} : i2cOpen(fd)
    /\ UNCHANGED <<i2cAddr, ret, run, stateFile, savedBlob, tv, lastTs, last, DEBUG>>

main_i2cSetAddress ==
    /\ pc = "opened"
    /\ \E rc \in {-1, 0} : i2cSetAddress(BME680_I2C_ADDR_SECONDARY, rc)
    /\ UNCHANGED <<g_i2cFid, ret, run, stateFile, savedBlob, tv, lastTs, last, DEBUG>>

\* main calls bsec_iot_init
main_bsec_iot_init ==
    /\ pc = "bound"
    /\ pc' = "init"
    /\ run' = [run EXCEPT !.initCalled = TRUE, !.fidAtInit = g_i2cFid, !.addrAtInit = i2cAddr]
    /\ UNCHANGED <<g_i2cFid, i2cAddr, exitStatus, ret, stateFile, savedBlob, tv, lastTs, last, DEBUG>>

\* bsec_iot_init returns; main returns its status or prints the header and
\* calls bsec_iot_loop
main_init_returned ==
    /\ pc = "init"
    /\ \E b \in Bme680Statuses, e \in BsecStatuses :
        LET r == [valid |-> TRUE, bme680_status |-> b, bsec_status |-> e]
            m == main_after_init(r)
        IN  /\ ret' = r
            /\ pc' = m.pc
            /\ exitStatus' = m.status
            /\ run' = [run EXCEPT !.loopCalled = (m.pc = "loop")]
            /\ last' = IF m.pc = "loop" /\ ~DEBUG
                       THEN [op |-> "output_header", lines |-> <<output_header>>,
                             returned |-> TRUE]
                       ELSE last
    /\ UNCHANGED <<g_i2cFid, i2cAddr, stateFile, savedBlob, tv, lastTs, DEBUG>>

\* the process ends (main returned, exit, crash, or it is killed in the endless
\* loop) and the program is started again; the file and the clock remain
Restart ==
    /\ pc \in {"returned", "exited", "crashed", "loop"}
    /\ pc' = "start"
    /\ g_i2cFid' = -1
    /\ i2cAddr' = 0
    /\ exitStatus' = <<>>
    /\ ret' = NoRet
    /\ run' = FreshRun
    /\ lastTs' = -1
    /\ last' = None
    /\ UNCHANGED <<stateFile, savedBlob, tv, DEBUG>>

(***************************************************************************)
(* The callbacks as the library calls them                                 *)
(***************************************************************************)
\* bsec_iot_init loads the state into a buffer of MaxBlobLen bytes
call_state_load ==
    /\ pc = "init"
    /\ \E buf \in [1..MaxBlobLen -> Bytes], aOK \in BOOLEAN, rOK \in BOOLEAN, ub \in UBOutcomes :
        state_load(buf, MaxBlobLen, aOK, rOK, ub)
    /\ UNCHANGED <<g_i2cFid, i2cAddr, ret, run, tv, lastTs, DEBUG>>

\* bsec_iot_loop saves the state it serialised into a buffer of MaxBlobLen bytes
call_state_save ==
    /\ pc = "loop"
    /\ \E buf \in [1..MaxBlobLen -> Bytes], length \in 0..MaxBlobLen, wOK \in BOOLEAN,
          ub \in UBOutcomes :
        \E k \in 0..length : state_save(buf, length, wOK, k, ub)
    /\ UNCHANGED <<g_i2cFid, i2cAddr, ret, run, tv, lastTs, DEBUG>>

call_bus_write ==
    /\ pc \in {"init", "loop"}
    /\ \E reg_addr \in RegAddrs, base \in PayloadBases, data_len \in 0..MaxDataLen,
          ub \in BusUBOutcomes, c \in Bytes :
        \E n \in {-1, 0, data_len, data_len + 1} :
            bus_write(reg_addr, Payload(base, data_len), data_len, n, ub, c)
    /\ UNCHANGED <<g_i2cFid, i2cAddr, ret, run, stateFile, savedBlob, tv, lastTs, DEBUG>>

MaxReadLen == 4

call_bus_read ==
    /\ pc \in {"init", "loop"}
    /\ \E reg_addr \in RegAddrs, data_len \in 0..MaxReadLen, w \in {-1, 0, 1} :
        \E r \in -1..data_len : bus_read(reg_addr, data_len, w, r)
    /\ UNCHANGED <<g_i2cFid, i2cAddr, ret, run, stateFile, savedBlob, tv, lastTs, DEBUG>>

call_sleeper ==
    /\ pc \in {"init", "loop"}
    /\ \E hi \in SleepHighs, lo \in SleepLows : sleeper(<<hi, lo>>)
    /\ UNCHANGED <<g_i2cFid, i2cAddr, ret, run, stateFile, savedBlob, tv, lastTs, DEBUG>>

call_get_timestamp_us ==
    /\ pc = "loop"
    /\ get_timestamp_us
    /\ UNCHANGED <<g_i2cFid, i2cAddr, ret, run, stateFile, savedBlob, tv, DEBUG>>

call_output_ready ==
    /\ pc = "loop"
    /\ \E a \in Results : output_ready(a)
    /\ UNCHANGED <<g_i2cFid, i2cAddr, ret, run, stateFile, savedBlob, tv, lastTs, DEBUG>>

(***************************************************************************)
(* The time-of-day clock                                                   *)
(***************************************************************************)
\* time passes
Tick ==
    /\ \E t \in Times : TimeBefore(tv, t) /\ tv' = t
    /\ UNCHANGED <<pc, g_i2cFid, i2cAddr, exitStatus, ret, run, stateFile, savedBlob, lastTs,
                   last, DEBUG>>

\* the time of day is set (settimeofday, an NTP step): to any value
SetTime ==
    /\ \E t \in Times : t # tv /\ tv' = t
    /\ UNCHANGED <<pc, g_i2cFid, i2cAddr, exitStatus, ret, run, stateFile, savedBlob, lastTs,
                   last, DEBUG>>

(***************************************************************************)
(* Specifications                                                          *)
(***************************************************************************)
Absent == [exists |-> FALSE, data |-> <<>>]

Files == {Absent} \cup { [exists |-> TRUE, data |-> d] : d \in OldContents }

Init ==
    /\ pc = "start"
    /\ g_i2cFid = -1
    /\ i2cAddr = 0
    /\ exitStatus = <<>>
    /\ ret = NoRet
    /\ run = FreshRun
    /\ stateFile \in Files
    /\ savedBlob = NoBlob
    /\ tv \in Times
    /\ lastTs = -1
    /\ last = None
    /\ DEBUG \in BOOLEAN

Next ==
    \/ main_i2cOpen
    \/ main_i2cSetAddress
    \/ main_bsec_iot_init
    \/ main_init_returned
    \/ Restart
    \/ call_state_load
    \/ call_state_save
    \/ call_bus_write
    \/ call_bus_read
    \/ call_sleeper
    \/ call_get_timestamp_us
    \/ call_output_ready
    \/ Tick
    \/ SetTime

Spec == Init /\ [][Next]_vars

\* the state store in use: the runs of the program that load and save
InitStore == Init /\ tv = [sec |-> 0, usec |-> 0] /\ DEBUG = FALSE

NextStore ==
    \/ main_i2cOpen
    \/ main_i2cSetAddress
    \/ main_bsec_iot_init
    \/ main_init_returned
    \/ Restart
    \/ call_state_load
    \/ call_state_save

SpecStore == InitStore /\ [][NextStore]_vars

\* the bus in use
InitBus == Init /\ stateFile = Absent /\ tv = [sec |-> 0, usec |-> 0] /\ DEBUG = FALSE

NextBus ==
    \/ main_i2cOpen
    \/ main_i2cSetAddress
    \/ main_bsec_iot_init
    \/ main_init_returned
    \/ Restart
    \/ call_bus_write
    \/ call_bus_read

SpecBus == InitBus /\ [][NextBus]_vars

\* the clock in use
InitClock == Init /\ stateFile = Absent /\ DEBUG = FALSE

NextClock ==
    \/ main_i2cOpen
    \/ main_i2cSetAddress
    \/ main_bsec_iot_init
    \/ main_init_returned
    \/ Restart
    \/ call_sleeper
    \/ call_get_timestamp_us
    \/ Tick
    \/ SetTime

SpecClock == InitClock /\ [][NextClock]_vars

\* the output in use
InitOut == Init /\ stateFile = Absent

NextOut ==
    \/ main_i2cOpen
    \/ main_i2cSetAddress
    \/ main_bsec_iot_init
    \/ main_init_returned
    \/ Restart
    \/ call_get_timestamp_us
    \/ call_output_ready
    \/ Tick

SpecOut == InitOut /\ [][NextOut]_vars

(***************************************************************************)
(* Properties                                                              *)
(***************************************************************************)
StorageOpened == last.appendOpened /\ last.readOpened

\* C1: a load that follows a completed save of blob b (N bytes), whatever the
\* file held before the save, returns N and fills the first N bytes of the
\* buffer with b; a load when no state file exists returns 0 bytes and
\* returns normally.  (The files open and the buffer holds N bytes.)
C1_RoundTrip ==
    (last.op = "state_load" /\ StorageOpened) =>
        /\ last.returned
        /\ savedBlob # NoBlob =>
            /\ last.size = Len(savedBlob)
            /\ SubSeq(last.buffer, 1, last.size) = savedBlob
            /\ stateFile.data = savedBlob
        /\ ~last.fileBefore.exists => last.size = 0

C1_Witness ==
    /\ last.op = "state_load" /\ StorageOpened
    /\ savedBlob # NoBlob /\ Len(savedBlob) = MaxBlobLen
    /\ last.size = MaxBlobLen

\* C2: state_load always returns to its caller, never hands a handle that
\* failed to open to fclose, and returns 0 when no state exists or the file
\* cannot be opened.
C2_LoadNeverFails ==
    last.op = "state_load" =>
        /\ last.returned
        /\ ~last.closedNull
        /\ (~last.fileBefore.exists \/ ~last.readOpened) => last.size = 0

\* C3: a state_save whose file cannot be opened, or that writes fewer than
\* length bytes, reports the failure, does not report success, returns to the
\* loop and never hands an unopened handle to fclose.
C3_SaveReportsFailure ==
    (last.op = "state_save" /\ (~last.opened \/ last.written < last.length)) =>
        /\ last.msg = <<"Unable to save sensor state!">>
        /\ last.returned
        /\ ~last.closedNull

\* C4: bus_write issues exactly one write whose frame is the register offset
\* followed by the data_len payload bytes in order, returns 0 only when all
\* data_len+1 bytes were transferred, and otherwise ends the process with
\* status 1 instead of returning.
C4_WriteFrame ==
    last.op = "bus_write" =>
        /\ Len(last.writes) = 1
        /\ last.writes[1].count = last.data_len + 1
        /\ last.writes[1].frame = <<last.reg_addr>> \o last.reg_data
        /\ (last.returned /\ last.rslt = 0) => last.n = last.data_len + 1
        /\ last.n # last.data_len + 1 =>
            (~last.returned /\ pc = "exited" /\ exitStatus = <<1>>)

\* Supporting C4: while the frame fits reg (data_len <= 15) bus_write behaves
\* as C4 states.
C4_WriteFrameInBounds ==
    (last.op = "bus_write" /\ last.data_len + 1 <= REG_SIZE) =>
        /\ Len(last.writes) = 1
        /\ last.writes[1].count = last.data_len + 1
        /\ last.writes[1].frame = <<last.reg_addr>> \o last.reg_data
        /\ (last.returned /\ last.rslt = 0) => last.n = last.data_len + 1
        /\ last.n # last.data_len + 1 =>
            (~last.returned /\ pc = "exited" /\ exitStatus = <<1>>)

UnexpectedCount ==
    last.calls[1].got # 1 \/ last.calls[2].got # last.data_len

\* C5: bus_read writes the one offset byte, then reads data_len bytes, and
\* returns non-zero exactly when one of the two phases transferred an
\* unexpected number of bytes.
C5_ReadResult ==
    last.op = "bus_read" =>
        /\ Len(last.calls) = 2
        /\ last.calls[1].call = "write" /\ last.calls[1].count = 1
        /\ last.calls[1].frame = <<last.reg_addr>>
        /\ last.calls[2].call = "read" /\ last.calls[2].count = last.data_len
        /\ last.returned
        /\ (last.rslt # 0) <=> UnexpectedCount

C5_Witness ==
    /\ last.op = "bus_read"
    /\ last.calls[1].got # 1
    /\ last.data_len > 0 /\ last.calls[2].got = last.data_len
    /\ last.rslt # 0

InitStatus ==
    IF SignExtend8(ret.bme680_status) # 0 THEN SignExtend8(ret.bme680_status)
    ELSE ret.bsec_status

\* C6: bsec_iot_init is called with the bus open and the device address
\* bound; bsec_iot_loop is entered only after bsec_iot_init returned two zero
\* statuses; after a non-zero status main has returned that status and the
\* loop is not called in that run.
C6_StartupOrder ==
    /\ run.initCalled =>
        (run.fidAtInit >= 0 /\ run.addrAtInit = BME680_I2C_ADDR_SECONDARY)
    /\ (run.loopCalled \/ pc = "loop") =>
        (ret.valid /\ ret.bme680_status = 0 /\ ret.bsec_status = 0)
    /\ (ret.valid /\ InitStatus # 0) =>
        (~run.loopCalled /\ pc = "returned" /\ exitStatus = <<InitStatus>>)

C6_Witness ==
    /\ ret.valid /\ ret.bme680_status = 0 /\ ret.bsec_status # 0
    /\ pc = "returned"

\* C7: for every t_ms, the value sleeper passes to usleep equals t_ms * 1000.
C7_SleepExact ==
    last.op = "sleeper" => Widen(last.usleep) = mul1000_exact(last.t_ms)

\* C8: a call of get_timestamp_us returns a value greater than or equal to
\* the value the previous call of the same run returned.
C8_Monotonic ==
    (last.op = "get_timestamp_us" /\ last.prev # -1) => last.ts >= last.prev

RequiredFields ==
    {"timestamp", "temperature", "pressure", "humidity", "gas", "iaq", "iaq_accuracy"}

\* C9: every call of output_ready prints exactly one line, and the line has
\* a field for each of timestamp, temperature, pressure, relative humidity,
\* raw gas signal, IAQ and iaq_accuracy.
C9_RecordFields ==
    last.op = "output_ready" =>
        /\ Len(last.lines) = 1
        /\ \A a \in RequiredFields :
            \E i \in 1..Len(last.lines[1].fields) : last.lines[1].fields[i].arg = a

\* C10: every index of reg that bus_write assigns, and every byte it hands to
\* write, lies within reg[0..15].
C10_FrameInBounds ==
    last.op = "bus_write" =>
        \A i \in last.written \cup last.handed : i \in 0..(REG_SIZE - 1)

====
